---------------------------- MODULE Spec2Model ----------------------------
(***************************************************************************)
(* LazyBloomIter (pkg/storage/bloom/v1/bloom_querier.go): the lazy, pooled *)
(* page cursor over the bloom pages of one Block.                          *)
(*                                                                         *)
(* The cursor is modelled as a record with the fields of the Go struct.    *)
(* Seek and Next are operators on that record, translated statement by     *)
(* statement; every call made on a collaborator (Block, BloomPageDecoder)  *)
(* is counted in an effects record so that frame properties can be stated. *)
(* The Block and the BloomPageDecoder are not part of bloom_querier.go;    *)
(* they are modelled from their contract.                                  *)
(***************************************************************************)
EXTENDS Integers, Sequences, FiniteSets

VARIABLES
    b,            \* it.b: the block, a sequence of pages (0-based page i is b[i+1])
    it,           \* the LazyBloomIter: usePool, initialized, err, curPageIndex, curPage
    last,         \* the last call: operation, arguments, result, collaborator calls, state before
    scan,         \* records returned by Next so far, while only fault-free Next calls were made
    scanning,     \* TRUE while the history is a fault-free run of Next calls from construction
    okHistory,    \* TRUE while every call so far finished with Err() = nil
    fatalSeen,    \* TRUE once a cursor-level error that is not ErrPageTooLarge was recorded
    nSeek,        \* number of Seek calls made
    owned         \* decoders got and not yet relinquished (counted for a pooling cursor)

vars == <<b, it, last, scan, scanning, okHistory, fatalSeen, nSeek, owned>>

---------------------------------------------------------------------------
(* Bounds of the model *)

NumPages == 2     \* pages per block
MaxRecs  == 2     \* records per page, and the largest byte offset sought
MaxSeeks == 2     \* Seek calls per behaviour

---------------------------------------------------------------------------
(* Errors: an error is the chain of its wrappers, outermost first; nil is  *)
(* the empty chain.                                                        *)

NoErr           == <<>>
ErrPageTooLarge == <<"ErrPageTooLarge">>
ErrLoadHeaders  == <<"ErrLoadHeaders">>
ErrReader       == <<"ErrBloomsReader">>
ErrPageLoad     == <<"ErrPageLoad">>
ErrDecode       == <<"ErrDecode">>

\* errors.Wrap(err, msg)
Wrap(e, msg) == <<msg>> \o e

\* errors.Is(err, target): walks the chain of causes
RECURSIVE ErrorsIs(_, _)
ErrorsIs(e, target) ==
    IF e = NoErr THEN FALSE
    ELSE IF e = target THEN TRUE
    ELSE ErrorsIs(Tail(e), target)

---------------------------------------------------------------------------
(* The block and its pages *)

\* the records of a page: empty, MaxRecs decodable records, or MaxRecs records
\* of which the last is corrupt
RecSeqs ==
    { <<>>, [i \in 1..MaxRecs |-> "ok"],
      [i \in 1..MaxRecs |-> IF i = MaxRecs THEN "bad" ELSE "ok"] }

\* a page: its records, and whether its size exceeds the cursor's maxSize (it.m)
Pages ==
    { [recs |-> r, large |-> FALSE] : r \in RecSeqs } \cup
    { [recs |-> [i \in 1..MaxRecs |-> "ok"], large |-> TRUE] }

Blocks == [1..NumPages -> Pages]

PageIdx == 0..(NumPages - 1)
Offsets == 0..(MaxRecs - 1)

\* len(it.b.blooms.pageHeaders)
NumPageHeaders(blk) == Len(blk)

---------------------------------------------------------------------------
(* BloomPageDecoder: the decoder of one page *)

NilPage == [page |-> -1, pos |-> 0, cur |-> -1, err |-> NoErr, rel |-> 0]

\* a decoder as the page factory returns it: at the start of the page, owned
NewDecoder(p) == [page |-> p, pos |-> 0, cur |-> -1, err |-> NoErr, rel |-> 0]

\* BloomPageDecoder.Seek(offset)
DecSeek(d, off) == [d EXCEPT !.pos = off, !.cur = off]

\* BloomPageDecoder.Next(): the decoder after the call, and the result
DecNext(blk, d) ==
    LET recs == blk[d.page + 1].recs IN
    IF d.pos >= Len(recs) THEN [d |-> d, ok |-> FALSE]
    ELSE IF recs[d.pos + 1] = "bad"
         THEN [d |-> [d EXCEPT !.err = ErrDecode], ok |-> FALSE]
         ELSE [d |-> [d EXCEPT !.cur = d.pos, !.pos = d.pos + 1], ok |-> TRUE]

\* BloomPageDecoder.Relinquish(): the buffer goes back to the pool
DecRelinquish(d) == [d EXCEPT !.rel = d.rel + 1]

\* the record a direct decode of (page, byteOffset) yields
DirectDecode(blk, p, off) ==
    IF off + 1 \in DOMAIN blk[p + 1].recs /\ blk[p + 1].recs[off + 1] = "ok"
    THEN <<p, off>>
    ELSE <<>>

---------------------------------------------------------------------------
(* Faults of the collaborators during one call.  A call returns at its     *)
(* first failure, so one fault per call covers every behaviour.            *)

NoFault == [kind |-> "none", page |-> 0]

\* the faults that can show in a call on cursor c that acquires pages in ps
Faults(c, ps) ==
    {NoFault} \cup
    { [kind |-> k, page |-> p] : k \in {"reader", "load"}, p \in ps } \cup
    (IF c.initialized THEN {} ELSE { [kind |-> "header", page |-> 0] })

\* collaborator calls made during one call
\* (acqs: page factory calls, got: decoders they returned, rels: Relinquish
\*  calls, twice: those on a decoder already relinquished, stale: Seek/Next
\*  calls on a relinquished decoder, dones: pages left as exhausted, iters:
\*  iterations of next's loop, peak: the largest value during the call of the
\*  decoders got minus the decoders relinquished for the first time)
NoFx == [loads |-> 0, opens |-> 0, acqs |-> 0, got |-> 0, rels |-> 0, twice |-> 0,
         seeks |-> 0, advs |-> 0, stale |-> 0, dones |-> 0, iters |-> 0, peak |-> 0]

\* the calls fx and one more decoder returned by the page factory
GotDecoder(fx) ==
    LET own == fx.got + 1 - (fx.rels - fx.twice) IN
    [fx EXCEPT !.got = @ + 1, !.peak = IF own > @ THEN own ELSE @]

\* it.b.blooms.BloomPageDecoder(r, page, it.m, metrics): the error it returns
PageDecoderErr(blk, p, f) ==
    IF blk[p + 1].large THEN ErrPageTooLarge
    ELSE IF f.kind = "load" /\ f.page = p THEN ErrPageLoad
    ELSE NoErr

\* it.b.reader.Blooms(): the error it returns
BloomsErr(p, f) == IF f.kind = "reader" /\ f.page = p THEN ErrReader ELSE NoErr

---------------------------------------------------------------------------
(* LazyBloomIter.  A call state s is [it |-> the cursor, fx |-> the        *)
(* collaborator calls made so far in this call].                           *)

\* NewLazyBloomIter(b, pool, maxSize)
NewLazyBloomIter(pool) ==
    [usePool |-> pool, initialized |-> FALSE, err |-> NoErr,
     curPageIndex |-> 0, curPage |-> NilPage]

\* (variant: initialized is set only when the headers were loaded)
ensureInitRetries(s, f) ==
    IF ~s.it.initialized
    THEN [it |-> [s.it EXCEPT !.err = IF f.kind = "header" THEN ErrLoadHeaders ELSE @,
                              !.initialized = (f.kind # "header")],
          fx |-> [s.fx EXCEPT !.loads = @ + 1]]
    ELSE s

\* ensureInit()
ensureInit(s, f) ==
    IF ~s.it.initialized
    THEN [it |-> [s.it EXCEPT !.err = IF f.kind = "header" THEN ErrLoadHeaders ELSE @,
                              !.initialized = TRUE],
          fx |-> [s.fx EXCEPT !.loads = @ + 1]]
    ELSE s

\* Seek, lines 48-51: reset error from any previous seek/next that yield pages too large
SeekResetErr(e) == IF ErrorsIs(e, ErrPageTooLarge) THEN NoErr ELSE e

\* (variant: every Seek loads a page, the held one is never reused)
SeekAlwaysLoads(c, p) == TRUE

\* Seek, line 55: a different page is needed, or none is loaded
SeekNeedsPage(c, p) == c.curPageIndex # p \/ c.curPage = NilPage

\* (variant: the current page is never relinquished)
SeekDropPageNever(s) == s

\* (variant: the current page is relinquished whether or not the pool is used)
SeekDropPageAlways(s) ==
    IF s.it.curPage # NilPage
    THEN [it |-> [s.it EXCEPT !.curPage = DecRelinquish(@)],
          fx |-> [s.fx EXCEPT !.rels = @ + 1,
                              !.twice = IF s.it.curPage.rel > 0 THEN @ + 1 ELSE @]]
    ELSE s

\* Seek, lines 57-61: drop the current page if it exists and the pool is used
SeekDropPage(s) ==
    IF s.it.curPage # NilPage /\ s.it.usePool
    THEN [it |-> [s.it EXCEPT !.curPage = DecRelinquish(@)],
          fx |-> [s.fx EXCEPT !.rels = @ + 1,
                              !.twice = IF s.it.curPage.rel > 0 THEN @ + 1 ELSE @]]
    ELSE s

\* (variant: the loaded page is stored, curPageIndex is not updated)
SeekLoadPageKeepsIndex(blk, s, p, f) ==
    LET s1 == [s EXCEPT !.fx.opens = @ + 1] IN
    IF BloomsErr(p, f) # NoErr
    THEN [it |-> [s1.it EXCEPT !.err = Wrap(BloomsErr(p, f), "getting blooms reader")],
          fx |-> s1.fx, ok |-> FALSE]
    ELSE LET s2 == [s1 EXCEPT !.fx.acqs = @ + 1] IN
         IF PageDecoderErr(blk, p, f) # NoErr
         THEN [it |-> [s2.it EXCEPT !.err = Wrap(PageDecoderErr(blk, p, f), "loading bloom page")],
               fx |-> s2.fx, ok |-> FALSE]
         ELSE [it |-> [s2.it EXCEPT !.curPage = NewDecoder(p)],
               fx |-> GotDecoder(s2.fx), ok |-> TRUE]

\* (variant: curPageIndex is assigned before the page is loaded)
SeekLoadPageIndexFirst(blk, s, p, f) ==
    LET s1 == [s EXCEPT !.fx.opens = @ + 1, !.it.curPageIndex = p] IN
    IF BloomsErr(p, f) # NoErr
    THEN [it |-> [s1.it EXCEPT !.err = Wrap(BloomsErr(p, f), "getting blooms reader")],
          fx |-> s1.fx, ok |-> FALSE]
    ELSE LET s2 == [s1 EXCEPT !.fx.acqs = @ + 1] IN
         IF PageDecoderErr(blk, p, f) # NoErr
         THEN [it |-> [s2.it EXCEPT !.err = Wrap(PageDecoderErr(blk, p, f), "loading bloom page")],
               fx |-> s2.fx, ok |-> FALSE]
         ELSE [it |-> [s2.it EXCEPT !.curPage = NewDecoder(p)],
               fx |-> GotDecoder(s2.fx), ok |-> TRUE]

\* Seek, lines 63-75: load the desired page; ok is FALSE on the early returns
SeekLoadPage(blk, s, p, f) ==
    LET s1 == [s EXCEPT !.fx.opens = @ + 1] IN
    IF BloomsErr(p, f) # NoErr
    THEN [it |-> [s1.it EXCEPT !.err = Wrap(BloomsErr(p, f), "getting blooms reader")],
          fx |-> s1.fx, ok |-> FALSE]
    ELSE LET s2 == [s1 EXCEPT !.fx.acqs = @ + 1] IN
         IF PageDecoderErr(blk, p, f) # NoErr
         THEN [it |-> [s2.it EXCEPT !.err = Wrap(PageDecoderErr(blk, p, f), "loading bloom page")],
               fx |-> s2.fx, ok |-> FALSE]
         ELSE [it |-> [s2.it EXCEPT !.curPageIndex = p, !.curPage = NewDecoder(p)],
               fx |-> GotDecoder(s2.fx), ok |-> TRUE]

\* Seek, line 79: it.curPage.Seek(offset.ByteOffset)
SeekWithinPage(s, off) ==
    [it |-> [s.it EXCEPT !.curPage = DecSeek(@, off)],
     fx |-> [s.fx EXCEPT !.seeks = @ + 1,
                         !.stale = IF s.it.curPage.rel > 0 THEN @ + 1 ELSE @]]

\* Seek(offset): the call state after the call
Seek(blk, c, p, off, f) ==
    LET s1 == ensureInit([it |-> c, fx |-> NoFx], f)
        s2 == [s1 EXCEPT !.it.err = SeekResetErr(@)]
    IN  IF SeekNeedsPage(s2.it, p)
        THEN LET s4 == SeekLoadPage(blk, SeekDropPage(s2), p, f)
             IN  IF s4.ok
                 THEN SeekWithinPage([it |-> s4.it, fx |-> s4.fx], off)
                 ELSE [it |-> s4.it, fx |-> s4.fx]
        ELSE SeekWithinPage(s2, off)

\* next, lines 97-115: first access of the page at curPageIndex; ok is FALSE on the returns
\* (line 104 assigns the factory's decoder to it.curPage also on error: it is nil then)
nextLoadPage(blk, s, f) ==
    LET p  == s.it.curPageIndex
        s1 == [s EXCEPT !.fx.opens = @ + 1]
    IN  IF BloomsErr(p, f) # NoErr
        THEN [it |-> [s1.it EXCEPT !.err = Wrap(BloomsErr(p, f), "getting blooms reader")],
              fx |-> s1.fx, ok |-> FALSE]
        ELSE LET s2 == [s1 EXCEPT !.fx.acqs = @ + 1] IN
             IF PageDecoderErr(blk, p, f) # NoErr
             THEN [it |-> [s2.it EXCEPT !.err = PageDecoderErr(blk, p, f)],
                   fx |-> s2.fx, ok |-> FALSE]
             ELSE [it |-> [s2.it EXCEPT !.curPage = NewDecoder(p)],
                   fx |-> GotDecoder(s2.fx), ok |-> TRUE]

\* next, lines 118-121: the page's Next returned false with an error
nextPageErr(s) == s

\* (variant: the exhausted page is released but the reference is kept)
nextPageDoneKeepsPage(s) ==
    [it |-> [s.it EXCEPT !.curPageIndex = @ + 1],
     fx |-> [s.fx EXCEPT !.rels = IF s.it.usePool THEN @ + 1 ELSE @,
                         !.twice = IF s.it.usePool /\ s.it.curPage.rel > 0 THEN @ + 1 ELSE @,
                         !.dones = @ + 1]]

\* (variant: the page index is advanced by two)
nextPageDoneSkipsPage(s) ==
    [it |-> [s.it EXCEPT !.curPageIndex = @ + 2, !.curPage = NilPage],
     fx |-> [s.fx EXCEPT !.rels = IF s.it.usePool THEN @ + 1 ELSE @,
                         !.twice = IF s.it.usePool /\ s.it.curPage.rel > 0 THEN @ + 1 ELSE @,
                         !.dones = @ + 1]]

\* next, lines 123-131: the current page is exhausted, progress to the next
nextPageDone(s) ==
    [it |-> [s.it EXCEPT !.curPageIndex = @ + 1, !.curPage = NilPage],
     fx |-> [s.fx EXCEPT !.rels = IF s.it.usePool THEN @ + 1 ELSE @,
                         !.twice = IF s.it.usePool /\ s.it.curPage.rel > 0 THEN @ + 1 ELSE @,
                         !.dones = @ + 1]]

\* next, line 117: it.curPage.Next()
nextAdvance(blk, s) ==
    LET r == DecNext(blk, s.it.curPage) IN
    [it |-> [s.it EXCEPT !.curPage = r.d],
     fx |-> [s.fx EXCEPT !.advs = @ + 1,
                         !.stale = IF s.it.curPage.rel > 0 THEN @ + 1 ELSE @],
     ok |-> r.ok]

\* next, lines 95-138: the loop over the pages
RECURSIVE nextLoop(_, _, _)
nextLoop(blk, s0, f) ==
    IF s0.it.curPageIndex < NumPageHeaders(blk)
    THEN LET s == [s0 EXCEPT !.fx.iters = @ + 1] IN
         IF s.it.curPage = NilPage
         THEN LET l == nextLoadPage(blk, s, f) IN
              IF l.ok THEN nextLoop(blk, [it |-> l.it, fx |-> l.fx], f)
              ELSE [it |-> l.it, fx |-> l.fx, ret |-> FALSE]
         ELSE LET a == nextAdvance(blk, s) IN
              IF a.ok THEN [it |-> a.it, fx |-> a.fx, ret |-> TRUE]
              ELSE IF a.it.curPage.err # NoErr
                   THEN LET e == nextPageErr([it |-> a.it, fx |-> a.fx])
                        IN  [it |-> e.it, fx |-> e.fx, ret |-> FALSE]
                   ELSE nextLoop(blk, nextPageDone([it |-> a.it, fx |-> a.fx]), f)
    ELSE [it |-> s0.it, fx |-> s0.fx, ret |-> FALSE]    \* finished last page

\* next()
next(blk, s, f) ==
    IF s.it.err # NoErr
    THEN [it |-> s.it, fx |-> s.fx, ret |-> FALSE]
    ELSE nextLoop(blk, s, f)

\* (variant: the early return on a recorded error returns true)
NextTrueOnErr(blk, c, f) ==
    LET s1 == ensureInit([it |-> c, fx |-> NoFx], f) IN
    IF s1.it.err # NoErr
    THEN [it |-> s1.it, fx |-> s1.fx, ret |-> TRUE]
    ELSE next(blk, s1, f)

\* (variant: Next resets a page-too-large error the way Seek does)
NextResetsErr(blk, c, f) ==
    LET s1 == ensureInit([it |-> c, fx |-> NoFx], f)
        s2 == [s1 EXCEPT !.it.err = SeekResetErr(@)]
    IN  IF s2.it.err # NoErr
        THEN [it |-> s2.it, fx |-> s2.fx, ret |-> FALSE]
        ELSE next(blk, s2, f)

\* Next(): the call state after the call, and the result
Next(blk, c, f) ==
    LET s1 == ensureInit([it |-> c, fx |-> NoFx], f) IN
    IF s1.it.err # NoErr
    THEN [it |-> s1.it, fx |-> s1.fx, ret |-> FALSE]
    ELSE next(blk, s1, f)

\* At(): the record of the held page the cursor is on
At(blk, c) == DirectDecode(blk, c.curPage.page, c.curPage.cur)

\* (variant: the held page's error is reported before the cursor's)
ErrPageFirst(c) ==
    IF c.curPage # NilPage /\ c.curPage.err # NoErr THEN c.curPage.err
    ELSE c.err

\* Err()
Err(c) ==
    IF c.err # NoErr THEN c.err
    ELSE IF c.curPage # NilPage THEN c.curPage.err
    ELSE NoErr

---------------------------------------------------------------------------
(* The state machine: a caller makes Seek and Next calls on one cursor     *)

\* a non-nil error that is not ErrPageTooLarge
IsFatal(e) == e # NoErr /\ ~ErrorsIs(e, ErrPageTooLarge)

\* the pages a Next call on cursor c may acquire
NextPages(c) ==
    IF c.err # NoErr THEN {}
    ELSE { p \in PageIdx : p >= c.curPageIndex /\ (p > c.curPageIndex \/ c.curPage = NilPage) }

\* the decoders owned after a call that made the calls fx
Owned(n, c, fx) == IF c.usePool THEN n + fx.got - (fx.rels - fx.twice) ELSE 0

Init ==
    /\ b \in Blocks
    /\ \E pool \in BOOLEAN : it = NewLazyBloomIter(pool)
    /\ last = [op |-> "new", page |-> 0, off |-> 0, ret |-> FALSE, fx |-> NoFx, pre |-> it]
    /\ scan = <<>>
    /\ scanning = TRUE
    /\ okHistory = TRUE
    /\ fatalSeen = FALSE
    /\ nSeek = 0
    /\ owned = 0

\* a call of Seek(BloomOffset{Page: p, ByteOffset: off})
SeekOp ==
    /\ nSeek < MaxSeeks
    /\ \E p \in PageIdx, off \in Offsets : \E f \in Faults(it, {p}) :
        LET r == Seek(b, it, p, off, f) IN
        /\ it' = r.it
        /\ last' = [op |-> "Seek", page |-> p, off |-> off, ret |-> FALSE,
                    fx |-> r.fx, pre |-> it]
        /\ okHistory' = (okHistory /\ Err(r.it) = NoErr)
        /\ fatalSeen' = (fatalSeen \/ IsFatal(ensureInit([it |-> it, fx |-> NoFx], f).it.err)
                                   \/ IsFatal(r.it.err))
        /\ owned' = Owned(owned, r.it, r.fx)
    /\ scanning' = FALSE
    /\ scan' = <<>>
    /\ nSeek' = nSeek + 1
    /\ UNCHANGED b

\* a call of Next()
NextOp ==
    /\ \E f \in Faults(it, NextPages(it)) :
        LET r == Next(b, it, f) IN
        /\ it' = r.it
        /\ last' = [op |-> "Next", page |-> 0, off |-> 0, ret |-> r.ret,
                    fx |-> r.fx, pre |-> it]
        /\ okHistory' = (okHistory /\ Err(r.it) = NoErr)
        /\ fatalSeen' = (fatalSeen \/ IsFatal(r.it.err))
        /\ scanning' = (scanning /\ Err(r.it) = NoErr)
        /\ scan' = IF scanning /\ Err(r.it) = NoErr
                   THEN (IF r.ret THEN Append(scan, At(b, r.it)) ELSE scan)
                   ELSE <<>>
        /\ owned' = Owned(owned, r.it, r.fx)
    /\ UNCHANGED <<b, nSeek>>

Nxt == SeekOp \/ NextOp

Spec == Init /\ [][Nxt]_vars

TypeOK ==
    /\ b \in Blocks
    /\ it.usePool \in BOOLEAN /\ it.initialized \in BOOLEAN
    /\ it.curPageIndex \in 0..NumPages
    /\ nSeek \in 0..MaxSeeks

---------------------------------------------------------------------------
(* Properties *)

\* the coordinates of the records of pages p.., in page order and in-page order
RECURSIVE AllCoords(_, _)
AllCoords(blk, p) ==
    IF p >= Len(blk) THEN <<>>
    ELSE [i \in 1..Len(blk[p + 1].recs) |-> <<p, i - 1>>] \o AllCoords(blk, p + 1)

IsPrefix(s, t) == Len(s) <= Len(t) /\ SubSeq(t, 1, Len(s)) = s

\* C1: scan completeness and order. While a fresh cursor has only seen Next
\* calls without error, the records returned so far are the first records of
\* the block in page order and in-page order; when Next then returns false
\* every record of every page has been returned and Err() is nil.
C1_ScanCompleteInOrder ==
    scanning =>
        /\ IsPrefix(scan, AllCoords(b, 0))
        /\ (last.op = "Next" /\ ~last.ret) =>
               (scan = AllCoords(b, 0) /\ Err(it) = NoErr)

C1_Witness ==
    /\ scanning /\ last.op = "Next" /\ ~last.ret
    /\ Len(scan) = NumPages * MaxRecs /\ MaxRecs > 1

\* C2: release exactly once. With pooling no decoder is relinquished twice,
\* and a decoder relinquished by a call is no longer the held page after it.
C2_ReleasedOnceWhenLeaving ==
    it.usePool =>
        /\ last.fx.twice = 0
        /\ last.fx.rels > 0 => (it.curPage = NilPage \/ it.curPage.rel = 0)

\* C3: fatal errors short-circuit Seek. A Seek made while a cursor-level error
\* other than page-too-large is recorded calls no collaborator.
C3_FatalShortCircuitsSeek ==
    (last.op = "Seek" /\ IsFatal(last.pre.err)) =>
        /\ last.fx.opens = 0 /\ last.fx.acqs = 0
        /\ last.fx.rels = 0 /\ last.fx.seeks = 0

\* C4: fatal errors are sticky. Once a cursor-level error other than
\* page-too-large has been recorded, Err() is non-nil after every later call.
C4_FatalSticky == fatalSeen => Err(it) # NoErr

\* C5: page-too-large is recoverable by Seek. A Seek made while the recorded
\* error is page-too-large, to a page within the size bound, with no stream or
\* page load failure, ends with Err() nil and the cursor holding an owned
\* decoder of the target page at the target offset.
C5_PageTooLargeRecoverable ==
    ( /\ last.op = "Seek"
      /\ ErrorsIs(last.pre.err, ErrPageTooLarge)
      /\ ~b[last.page + 1].large
      /\ ~ErrorsIs(it.err, ErrReader) /\ ~ErrorsIs(it.err, ErrPageLoad) ) =>
        /\ Err(it) = NoErr
        /\ it.curPage.page = last.page /\ it.curPage.pos = last.off
        /\ it.curPage.rel = 0

\* C6: Next never clears or bypasses a recorded error. A Next made while a
\* cursor-level error is recorded returns false, calls no collaborator and
\* leaves the cursor as it was.
C6_NextKeepsError ==
    (last.op = "Next" /\ last.pre.err # NoErr) =>
        /\ ~last.ret
        /\ last.fx = NoFx
        /\ it = last.pre

C6_Witness ==
    /\ last.op = "Next" /\ last.pre.err = ErrPageTooLarge
    /\ it.err = ErrPageTooLarge /\ last.pre.curPageIndex > 0

\* C7: page decode errors are promoted. After a Next in which the held page's
\* Next returned false with a page-local error, that error is the cursor-level
\* error.
C7_PageErrPromoted ==
    ( /\ last.op = "Next" /\ ~last.ret /\ last.fx.advs > 0
      /\ it.curPage # NilPage /\ it.curPage.err # NoErr ) =>
        it.err = it.curPage.err

\* C8: no read of a released page. With pooling, no Seek or Next is made on a
\* relinquished decoder, and whenever Err() and At() are answered by the held
\* page, this page has not been relinquished.
C8_NoUseAfterRelease ==
    it.usePool =>
        /\ last.fx.stale = 0
        /\ (it.err = NoErr /\ it.curPage # NilPage) => it.curPage.rel = 0

\* C9: decoder reuse. A Seek to the page of the held decoder opens no stream,
\* requests no decoder and releases nothing; it repositions the held decoder
\* to the target offset.
C9_SeekReusesHeldPage ==
    ( /\ last.op = "Seek"
      /\ last.pre.curPage # NilPage /\ last.pre.curPage.page = last.page ) =>
        /\ last.fx.opens = 0 /\ last.fx.acqs = 0 /\ last.fx.rels = 0
        /\ last.fx.seeks = 1
        /\ it.curPage = DecSeek(last.pre.curPage, last.off)
        /\ it.curPageIndex = last.pre.curPageIndex

C9_Witness ==
    /\ last.op = "Seek"
    /\ last.pre.curPage # NilPage /\ last.pre.curPage.page = last.page
    /\ last.off < last.pre.curPage.pos /\ last.page > 0

\* C10: Seek correctness. After a history of calls that all ended with Err()
\* nil, a Seek that ends with Err() nil leaves the cursor holding an owned
\* decoder of the target page at the target offset, and At() is the record a
\* direct decode of the coordinate yields.
C10_SeekPositions ==
    (last.op = "Seek" /\ okHistory) =>
        /\ it.curPageIndex = last.page
        /\ it.curPage.page = last.page /\ it.curPage.pos = last.off
        /\ it.curPage.rel = 0
        /\ At(b, it) = DirectDecode(b, last.page, last.off)

C10_Witness ==
    /\ last.op = "Seek" /\ okHistory /\ nSeek > 1
    /\ last.pre.curPage # NilPage /\ last.pre.curPage.page > last.page
    /\ DirectDecode(b, last.page, last.off) # <<>> /\ last.off > 0

\* C11: Err() precedence. Err() is the cursor-level error when one is set,
\* otherwise the held page's error when a page is held, otherwise nil.
C11_ErrPrecedence ==
    /\ it.err # NoErr => Err(it) = it.err
    /\ (it.err = NoErr /\ it.curPage # NilPage) => Err(it) = it.curPage.err
    /\ (it.err = NoErr /\ it.curPage = NilPage) => Err(it) = NoErr

C11_Witness ==
    /\ it.err # NoErr /\ it.curPage # NilPage
    /\ it.curPage.err # NoErr /\ it.curPage.err # it.err

\* C12: lazy, once-only metadata load. Construction loads nothing; the first
\* call loads the headers once, every later call loads nothing, also after a
\* failed load; a first Next whose load failed records the failure and opens
\* no stream.
C12_LoadOnce ==
    /\ last.op = "new" => (~it.initialized /\ last.fx = NoFx)
    /\ last.op # "new" =>
        /\ it.initialized
        /\ last.fx.loads = IF last.pre.initialized THEN 0 ELSE 1
    /\ (last.op = "Next" /\ last.fx.loads = 1 /\ last.fx.opens = 0) =>
        (it.err = ErrLoadHeaders /\ ~last.ret)
    /\ (last.fx.opens > 0 \/ last.fx.acqs > 0) => it.initialized

C12_Witness ==
    /\ last.op = "Seek" /\ last.pre.initialized
    /\ last.pre.err = ErrLoadHeaders /\ last.fx.loads = 0 /\ last.fx.opens > 0

\* C15: pooling disabled means no release. Without pooling no call
\* relinquishes a decoder and the held decoder was never relinquished.
C15_NoPoolNoRelease ==
    ~it.usePool => (last.fx.rels = 0 /\ it.curPage.rel = 0)

C15_Witness ==
    /\ ~it.usePool /\ last.op = "Seek"
    /\ last.pre.curPage # NilPage /\ last.pre.curPage.page # last.page
    /\ it.curPage.page = last.page

\* C16: the held page matches the page index. A held decoder is the decoder
\* acquired for the page at curPageIndex.
C16_HeldPageIsCurPage ==
    it.curPage # NilPage => it.curPage.page = it.curPageIndex

C16_Witness ==
    /\ it.curPage # NilPage /\ it.curPageIndex > 0
    /\ last.op = "Seek" /\ last.page # it.curPageIndex /\ it.err # NoErr

\* C13: at most one owned page, release before acquire. With pooling the
\* decoders got and not yet relinquished are at most one after every call and
\* at every moment of a call, and a Seek that opens a stream while a page is
\* held has relinquished that page.
C13_AtMostOneOwned ==
    it.usePool =>
        /\ owned <= 1
        /\ (owned - (last.fx.got - (last.fx.rels - last.fx.twice))) + last.fx.peak <= 1
        /\ (last.op = "Seek" /\ last.pre.curPage # NilPage /\ last.fx.opens > 0) =>
               last.fx.rels = 1

C13_Witness ==
    /\ it.usePool /\ last.op = "Seek"
    /\ last.pre.curPage # NilPage /\ last.pre.curPage.rel = 0
    /\ last.fx.got = 1 /\ owned = 1

\* decoders d and e are the same decoder in the same position
SameDecoder(d, e) == [d EXCEPT !.rel = 0] = [e EXCEPT !.rel = 0]

\* C14: a failed Seek does not reposition. A Seek that opens a stream and gets
\* no decoder records an error, keeps the page index and the held decoder and
\* makes no Seek call on a decoder.
C14_FailedSeekKeepsPosition ==
    (last.op = "Seek" /\ last.fx.opens > 0 /\ last.fx.got = 0) =>
        /\ it.err # NoErr /\ Err(it) # NoErr
        /\ it.curPageIndex = last.pre.curPageIndex
        /\ SameDecoder(it.curPage, last.pre.curPage)
        /\ last.fx.seeks = 0

C14_Witness ==
    /\ last.op = "Seek" /\ last.fx.opens > 0 /\ last.fx.got = 0
    /\ last.pre.curPage # NilPage /\ last.pre.curPage.pos > 0
    /\ last.page # last.pre.curPageIndex

\* the coordinates of the block at or after (p, pos), in order
CoordsFrom(blk, p, pos) ==
    SelectSeq(AllCoords(blk, 0), LAMBDA c : c[1] > p \/ (c[1] = p /\ c[2] >= pos))

\* where a Next call on cursor c starts reading
StartPos(c) == IF c.curPage = NilPage THEN 0 ELSE c.curPage.pos

\* C17: Seek then Next resumes at the sought page. A Next never lowers the page
\* index and raises it by one per exhausted page; from a cursor without error
\* it returns the first record at or after the cursor's position in page order,
\* or false at the end of the last page; a Seek that got a decoder sets the
\* index to its target, whatever the index was.
C17_NextResumesInOrder ==
    /\ last.op = "Next" =>
        /\ it.curPageIndex >= last.pre.curPageIndex
        /\ it.curPageIndex = last.pre.curPageIndex + last.fx.dones
        /\ (Err(last.pre) = NoErr /\ last.pre.curPage.rel = 0) =>
            LET from == CoordsFrom(b, last.pre.curPageIndex, StartPos(last.pre)) IN
            /\ last.ret =>
                (from # <<>> /\ At(b, it) = Head(from) /\ it.curPageIndex = Head(from)[1])
            /\ (~last.ret /\ Err(it) = NoErr) =>
                (from = <<>> /\ it.curPageIndex = NumPageHeaders(b))
    /\ (last.op = "Seek" /\ last.fx.got = 1) => it.curPageIndex = last.page

C17_Witness ==
    /\ last.op = "Next" /\ last.ret /\ nSeek > 0
    /\ last.pre.curPage # NilPage /\ last.pre.curPage.cur = last.pre.curPage.pos
    /\ Err(last.pre) = NoErr /\ last.pre.curPage.rel = 0
    /\ it.curPageIndex > last.pre.curPageIndex

\* C18: clean exhaustion is stable. When the page index is the page count no
\* page is held; with pooling a Next relinquishes exactly the pages it
\* exhausts; a Next on an exhausted cursor without error returns false, calls
\* no collaborator and leaves the cursor as it was, with Err() nil.
C18_CleanExhaustionStable ==
    /\ it.curPageIndex >= NumPageHeaders(b) => it.curPage = NilPage
    /\ (last.op = "Next" /\ it.usePool) => last.fx.rels = last.fx.dones
    /\ ( /\ last.op = "Next" /\ last.pre.initialized
         /\ last.pre.err = NoErr /\ last.pre.curPageIndex >= NumPageHeaders(b) ) =>
        /\ ~last.ret /\ last.fx = NoFx
        /\ it = last.pre /\ Err(it) = NoErr

C18_Witness ==
    /\ last.op = "Next" /\ it.usePool /\ last.pre.initialized
    /\ last.pre.err = NoErr /\ last.pre.curPageIndex = NumPageHeaders(b)

\* the records at or after the position of cursor c
Remaining(blk, c) == Len(CoordsFrom(blk, c.curPageIndex, StartPos(c)))

\* C19: Next terminates. Every iteration of next's loop opens a stream for the
\* missing page or advances the held page, and a Next call makes at most two
\* iterations per page at or after the page index; every Next that returns
\* true leaves fewer records at or after the cursor's position than before, so
\* a run of consecutive Next calls returns false after at most that many calls.
C19_NextTerminates ==
    last.op = "Next" =>
        /\ last.fx.iters = last.fx.opens + last.fx.advs
        /\ last.pre.curPageIndex <= NumPageHeaders(b)
        /\ last.fx.iters <= 2 * (NumPageHeaders(b) - last.pre.curPageIndex)
        /\ last.ret => Remaining(b, it) < Remaining(b, last.pre)
        /\ Remaining(b, last.pre) = 0 => ~last.ret

C19_Witness ==
    /\ last.op = "Next" /\ ~last.ret /\ Err(it) = NoErr
    /\ last.fx.iters = 2 * NumPageHeaders(b) /\ Remaining(b, last.pre) = 0

===========================================================================
